---- MODULE Spec2Model ----
(***************************************************************************)
(* futago: a minimal Gemini client (src/src/main.rs).                      *)
(*                                                                         *)
(* One run of main is one exchange: read the resource from stdin, build    *)
(* the request line, connect, write it, read the response header, handle   *)
(* it.  Text is modelled as its sequence of bytes, an ASCII byte written as *)
(* a one-character string and any other byte by its hexadecimal name; the  *)
(* transport's unread data is a sequence of non-empty chunks, one chunk    *)
(* being what a single read call on the TLS stream can return at most; once *)
(* they are read the stream ends cleanly or a read returns an I/O error.   *)
(* Every unwrap / expect / assert / panic of the source is a panic site,   *)
(* the failing print of println! / eprintln! included.                     *)
(***************************************************************************)
EXTENDS Integers, Sequences, FiniteSets, TLC

VARIABLES
    domain,      \* cli.domain                                  (main.rs:167)
    stdin,       \* the bytes waiting on standard input         (main.rs:170)
    stdin_end,   \* how standard input ends after them: cleanly or by an I/O error
    resource,    \* main's local `resource`                     (main.rs:170)
    uri,         \* fetch_resource's local `uri`                (main.rs:158)
    served,      \* the chunks the server sends before closing the stream
    closing,     \* how the stream ends after them: cleanly or by an I/O error
    chunks,      \* what the transport has not yet handed to a read call
    wire,        \* the bytes written to the transport          (main.rs:105)
    status_buf,  \* read_response_header's local                (main.rs:110)
    space,       \* read_response_header's local                (main.rs:109)
    response,    \* the Response value                          (main.rs:115)
    printed,     \* the message the handler prints              (main.rs:132-153)
    panic,       \* the panic site that ended the run, or NoPanic
    ops,         \* the transport operations performed so far, in order
    pc           \* main's position

vars == <<domain, stdin, stdin_end, resource, uri, served, closing, chunks, wire,
          status_buf, space, response, printed, panic, ops, pc>>

-----------------------------------------------------------------------------
(* Bounds of the model.                                                    *)

\* the most places at which the server's bytes are cut into separate chunks
MaxCuts == 1
\* the longest standard input
MaxStdinLen == 2
\* the longest host name after its optional prefix
MaxHostLen == 1

-----------------------------------------------------------------------------
(* Text helpers.                                                           *)

CR == "\r"
LF == "\n"
SP == " "
\* a byte that is not valid UTF-8 wherever it stands
BadByte == "0xFF"

\* The bytes 0x80..0xFF by their part in UTF-8 (core::str's validation).
\* continuation bytes, in the three ranges the validation tells apart
Cont80To8F ==
    {"0x80", "0x81", "0x82", "0x83", "0x84", "0x85", "0x86", "0x87",
     "0x88", "0x89", "0x8A", "0x8B", "0x8C", "0x8D", "0x8E", "0x8F"}
Cont90To9F ==
    {"0x90", "0x91", "0x92", "0x93", "0x94", "0x95", "0x96", "0x97",
     "0x98", "0x99", "0x9A", "0x9B", "0x9C", "0x9D", "0x9E", "0x9F"}
ContA0ToBF ==
    {"0xA0", "0xA1", "0xA2", "0xA3", "0xA4", "0xA5", "0xA6", "0xA7",
     "0xA8", "0xA9", "0xAA", "0xAB", "0xAC", "0xAD", "0xAE", "0xAF",
     "0xB0", "0xB1", "0xB2", "0xB3", "0xB4", "0xB5", "0xB6", "0xB7",
     "0xB8", "0xB9", "0xBA", "0xBB", "0xBC", "0xBD", "0xBE", "0xBF"}
ContBytes == Cont80To8F \cup Cont90To9F \cup ContA0ToBF
\* first bytes of a two-byte sequence
Lead2Bytes ==
    {"0xC2", "0xC3", "0xC4", "0xC5", "0xC6", "0xC7", "0xC8", "0xC9",
     "0xCA", "0xCB", "0xCC", "0xCD", "0xCE", "0xCF", "0xD0", "0xD1",
     "0xD2", "0xD3", "0xD4", "0xD5", "0xD6", "0xD7", "0xD8", "0xD9",
     "0xDA", "0xDB", "0xDC", "0xDD", "0xDE", "0xDF"}
\* first bytes of a three-byte sequence whose second byte may be any
\* continuation byte; after 0xE0 it must be A0..BF, after 0xED 80..9F
Lead3Bytes ==
    {"0xE1", "0xE2", "0xE3", "0xE4", "0xE5", "0xE6", "0xE7", "0xE8",
     "0xE9", "0xEA", "0xEB", "0xEC"} \cup {"0xEE", "0xEF"}
\* first bytes of a four-byte sequence whose second byte may be any
\* continuation byte; after 0xF0 it must be 90..BF, after 0xF4 80..8F
Lead4Bytes == {"0xF1", "0xF2", "0xF3"}
\* bytes that stand in no UTF-8 text
NeverBytes ==
    {"0xC0", "0xC1"} \cup
    {"0xF5", "0xF6", "0xF7", "0xF8", "0xF9", "0xFA", "0xFB", "0xFC",
     "0xFD", "0xFE", "0xFF"}
HighBytes ==
    ContBytes \cup Lead2Bytes \cup Lead3Bytes \cup Lead4Bytes \cup NeverBytes
        \cup {"0xE0", "0xED", "0xF0", "0xF4"}

\* how a stream ends once its bytes are read: a read returns Ok(0), or a read
\* returns Err (the connection was reset, the TLS session was cut, standard
\* input is a directory)
StreamEnds == {"eof", "error"}

NoValue == "none"
NoPanic == "none"

Min(a, b) == IF a < b THEN a ELSE b

Drop(s, n) == SubSeq(s, n + 1, Len(s))

Take(s, n) == SubSeq(s, 1, Min(n, Len(s)))

RECURSIVE Flatten(_)
Flatten(cs) == IF cs = <<>> THEN <<>> ELSE Head(cs) \o Flatten(Tail(cs))

\* str::starts_with
StartsWith(s, p) == Len(s) >= Len(p) /\ SubSeq(s, 1, Len(p)) = p

\* the position of the first x in s, 0 when there is none (memchr)
RECURSIVE IndexFrom(_, _, _)
IndexFrom(s, x, i) ==
    IF i > Len(s) THEN 0
    ELSE IF s[i] = x THEN i
    ELSE IndexFrom(s, x, i + 1)

IndexOf(s, x) == IndexFrom(s, x, 1)

Contains(s, x) == IndexOf(s, x) > 0

\* a byte below 0x80
IsAscii(b) == b \notin HighBytes

\* the bytes of s at positions from..to are there and are continuation bytes
ContinuesFor(s, from, to) ==
    Len(s) >= to /\ \A i \in from..to : s[i] \in ContBytes

\* the number of bytes of the UTF-8 sequence that s begins with, 0 when it
\* begins with none
SequenceLen(s) ==
    LET b == s[1]
        second(range) == Len(s) >= 2 /\ s[2] \in range
    IN  IF IsAscii(b) THEN 1
        ELSE IF b \in Lead2Bytes
        THEN IF second(ContBytes) THEN 2 ELSE 0
        ELSE IF \/ b = "0xE0" /\ second(ContA0ToBF)
                \/ b \in Lead3Bytes /\ second(ContBytes)
                \/ b = "0xED" /\ second(Cont80To8F \cup Cont90To9F)
        THEN IF ContinuesFor(s, 3, 3) THEN 3 ELSE 0
        ELSE IF \/ b = "0xF0" /\ second(Cont90To9F \cup ContA0ToBF)
                \/ b \in Lead4Bytes /\ second(ContBytes)
                \/ b = "0xF4" /\ second(Cont80To8F)
        THEN IF ContinuesFor(s, 3, 4) THEN 4 ELSE 0
        ELSE 0

RECURSIVE Utf8Valid(_)
\* String::from_utf8 succeeds: the bytes are whole UTF-8 sequences
Utf8Valid(s) ==
    IF s = <<>> THEN TRUE
    ELSE SequenceLen(s) > 0 /\ Utf8Valid(Drop(s, SequenceLen(s)))

Digits == {"0", "1", "2", "3", "4", "5", "6", "7", "8", "9"}

DigitVal(c) ==
    CASE c = "0" -> 0 [] c = "1" -> 1 [] c = "2" -> 2 [] c = "3" -> 3
      [] c = "4" -> 4 [] c = "5" -> 5 [] c = "6" -> 6 [] c = "7" -> 7
      [] c = "8" -> 8 [] c = "9" -> 9

-----------------------------------------------------------------------------
(* StatusCodes (main.rs:16-75).                                            *)

\* the enum's variants
StatusCodes ==
    {"Input", "SensitiveInput", "Success", "RedirectTemporary",
     "RedirectPermanent", "TemporaryFailure", "ServerUnavailable", "CgiError",
     "ProxyError", "SlowDown", "PermanentFailure", "NotFound", "Gone",
     "ProxyRequestRefused", "BadRequest", "ClientCertificateRequired",
     "CertificateNotAuthorised", "CertificateNotValid"}

\* the #[repr(u8)] discriminant of each variant
Discriminant(v) ==
    CASE v = "Input" -> 10
      [] v = "SensitiveInput" -> 11
      [] v = "Success" -> 20
      [] v = "RedirectTemporary" -> 30
      [] v = "RedirectPermanent" -> 31
      [] v = "TemporaryFailure" -> 40
      [] v = "ServerUnavailable" -> 41
      [] v = "CgiError" -> 42
      [] v = "ProxyError" -> 43
      [] v = "SlowDown" -> 44
      [] v = "PermanentFailure" -> 50
      [] v = "NotFound" -> 51
      [] v = "Gone" -> 52
      [] v = "ProxyRequestRefused" -> 53
      [] v = "BadRequest" -> 59
      [] v = "ClientCertificateRequired" -> 60
      [] v = "CertificateNotAuthorised" -> 61
      [] v = "CertificateNotValid" -> 62

\* what `into` gives where the match falls to `_ => panic!(...)`
UnknownStatusCode == "panic: unknown status code"

\* a decoder that sends 31 to the variant of 30
IntoStatusCodesSwapped(n) ==
    CASE n = 10 -> "Input"
      [] n = 11 -> "SensitiveInput"
      [] n = 20 -> "Success"
      [] n = 30 -> "RedirectTemporary"
      [] n = 31 -> "RedirectTemporary"
      [] n = 40 -> "TemporaryFailure"
      [] n = 41 -> "ServerUnavailable"
      [] n = 42 -> "CgiError"
      [] n = 43 -> "ProxyError"
      [] n = 44 -> "SlowDown"
      [] n = 50 -> "PermanentFailure"
      [] n = 51 -> "NotFound"
      [] n = 52 -> "Gone"
      [] n = 53 -> "ProxyRequestRefused"
      [] n = 59 -> "BadRequest"
      [] n = 60 -> "ClientCertificateRequired"
      [] n = 61 -> "CertificateNotAuthorised"
      [] n = 62 -> "CertificateNotValid"
      [] OTHER -> UnknownStatusCode

\* impl Into<StatusCodes> for u8
IntoStatusCodes(n) ==
    CASE n = 10 -> "Input"
      [] n = 11 -> "SensitiveInput"
      [] n = 20 -> "Success"
      [] n = 30 -> "RedirectTemporary"
      [] n = 31 -> "RedirectPermanent"
      [] n = 40 -> "TemporaryFailure"
      [] n = 41 -> "ServerUnavailable"
      [] n = 42 -> "CgiError"
      [] n = 43 -> "ProxyError"
      [] n = 44 -> "SlowDown"
      [] n = 50 -> "PermanentFailure"
      [] n = 51 -> "NotFound"
      [] n = 52 -> "Gone"
      [] n = 53 -> "ProxyRequestRefused"
      [] n = 59 -> "BadRequest"
      [] n = 60 -> "ClientCertificateRequired"
      [] n = 61 -> "CertificateNotAuthorised"
      [] n = 62 -> "CertificateNotValid"
      [] OTHER -> UnknownStatusCode

-----------------------------------------------------------------------------
(* Parsing and formatting.                                                 *)

\* what parse::<u8> gives for text it rejects
ParseError == -1

RECURSIVE DigitsValue(_, _)
\* the digits of s read in base 10 onto acc; ParseError for a character that
\* is no digit and for a value above u8::MAX
DigitsValue(s, acc) ==
    IF s = <<>> THEN acc
    ELSE IF Head(s) \notin Digits THEN ParseError
    ELSE IF acc * 10 + DigitVal(Head(s)) > 255 THEN ParseError
    ELSE DigitsValue(Tail(s), acc * 10 + DigitVal(Head(s)))

\* str::parse::<u8>: empty text and a lone sign are rejected, one leading
\* "+" is accepted, "-" is not a digit of an unsigned number
ParseU8(s) ==
    IF s = <<>> THEN ParseError
    ELSE IF Len(s) = 1 /\ s[1] \in {"+", "-"} THEN ParseError
    ELSE IF s[1] = "+" THEN DigitsValue(Tail(s), 0)
    ELSE DigitsValue(s, 0)

\* io::Lines: a line loses its final "\n" and then one "\r" before it
StripLine(buf) ==
    IF buf # <<>> /\ buf[Len(buf)] = LF
    THEN LET cut == Take(buf, Len(buf) - 1)
         IN  IF cut # <<>> /\ cut[Len(cut)] = CR
             THEN Take(cut, Len(cut) - 1)
             ELSE cut
    ELSE buf

Scheme == <<"g", "e", "m", "i", "n", "i", ":", "/", "/">>

Slash == <<"/">>

\* a build_uri that always puts the scheme in front
build_uri_always_prefix(d, r) == Scheme \o d \o r \o <<CR, LF>>

\* build_uri
build_uri(d, r) ==
    LET scheme == IF StartsWith(d, Scheme) THEN <<>> ELSE Scheme
    IN  scheme \o d \o r \o <<CR, LF>>

\* main's `resource`: the first line of standard input, "/" when there is
\* none; err when `resource_str?` returns from main: a read of standard input
\* failed before the line's "\n" came, or the line is not UTF-8
ResourceFrom(input, end) ==
    LET nl == IndexOf(input, LF)
        raw == IF nl = 0 THEN input ELSE Take(input, nl)
    IN  IF nl = 0 /\ end = "error" THEN [err |-> TRUE, line |-> <<>>]
        ELSE IF input = <<>> THEN [err |-> FALSE, line |-> Slash]
        ELSE IF Utf8Valid(raw) THEN [err |-> FALSE, line |-> StripLine(raw)]
        ELSE [err |-> TRUE, line |-> <<>>]

-----------------------------------------------------------------------------
(* The transport's read side.                                              *)

\* BufReader's capacity (std's DEFAULT_BUF_SIZE)
DEFAULT_BUF_SIZE == 8192

\* one read call with room for n bytes: what is ready in the first chunk, at
\* most n bytes of it; at the end of the stream nothing, or the I/O error
Read(cs, n, end) ==
    IF n = 0 THEN [data |-> <<>>, rest |-> cs, err |-> FALSE]
    ELSE IF cs = <<>>
    THEN [data |-> <<>>, rest |-> cs, err |-> end = "error"]
    ELSE LET h == Head(cs)
             k == Min(n, Len(h))
         IN  [data |-> Take(h, k),
              rest |-> IF k = Len(h) THEN Tail(cs)
                       ELSE <<Drop(h, k)>> \o Tail(cs),
              err |-> FALSE]

RECURSIVE TakeReadToEnd(_, _, _)
\* stream.take(limit).read_to_string: read calls until limit bytes have come,
\* the stream has ended, or a read call has failed
TakeReadToEnd(cs, limit, end) ==
    IF limit = 0 THEN [data |-> <<>>, rest |-> cs, err |-> FALSE]
    ELSE LET r == Read(cs, limit, end)
             more == TakeReadToEnd(r.rest, limit - Len(r.data), end)
         IN  IF r.err \/ r.data = <<>> THEN r
             ELSE [data |-> r.data \o more.data, rest |-> more.rest,
                   err |-> more.err]

RECURSIVE ReadToEnd(_, _)
\* stream.read_to_string: read calls up to the end of the stream, or until
\* one fails
ReadToEnd(cs, end) ==
    LET r == Read(cs, DEFAULT_BUF_SIZE, end)
        more == ReadToEnd(r.rest, end)
    IN  IF r.err \/ r.data = <<>> THEN r
        ELSE [data |-> r.data \o more.data, rest |-> more.rest,
              err |-> more.err]

RECURSIVE BufReadLine(_, _)
\* BufReader::new(stream).lines().next(), the reader then dropped: the reader
\* fills its buffer by one read call at a time until a filling holds "\n";
\* the line ends there, and what the buffer holds after it goes with the
\* reader.  A read call that fails before the "\n" fails the line.
BufReadLine(cs, end) ==
    LET r == Read(cs, DEFAULT_BUF_SIZE, end)
        nl == IndexOf(r.data, LF)
        more == BufReadLine(r.rest, end)
    IN  IF r.err \/ r.data = <<>> THEN r
        ELSE IF nl > 0
        THEN [data |-> Take(r.data, nl), rest |-> r.rest, err |-> FALSE]
        ELSE [data |-> r.data \o more.data, rest |-> more.rest,
              err |-> more.err]

-----------------------------------------------------------------------------
(* The handlers, as functions of what they are given.                      *)

NoResponse == [status |-> NoValue, meta |-> <<>>, body |-> <<>>]

NoMessage == [to |-> NoValue, text |-> NoValue, arg |-> <<>>]

TextPrefix == <<"t", "e", "x", "t", "/">>

\* what read_to_string leaves in its String when it returns Err: the bytes
\* read when they are text, nothing otherwise
KeptText(data) == IF Utf8Valid(data) THEN data ELSE <<>>

\* read_response_header: the locals, what is left on the transport, and the
\* Response returned or the panic site reached
read_response_header(cs, end) ==
    LET r1 == TakeReadToEnd(cs, 2, end)
        r2 == TakeReadToEnd(r1.rest, 1, end)
        r3 == BufReadLine(r2.rest, end)
        n  == ParseU8(r1.data)
        st == IntoStatusCodes(n)
        out(sb, sp, left, site, resp) ==
            [status_buf |-> sb, space |-> sp, chunks |-> left,
             panic |-> site, response |-> resp]
    IN  IF r1.err
        THEN out(KeptText(r1.data), <<>>, r1.rest, "read status: io error",
                 NoResponse)
        ELSE IF ~Utf8Valid(r1.data)
        THEN out(<<>>, <<>>, r1.rest, "read status: unwrap", NoResponse)
        ELSE IF r2.err
        THEN out(r1.data, KeptText(r2.data), r2.rest, "read space: io error",
                 NoResponse)
        ELSE IF ~Utf8Valid(r2.data)
        THEN out(r1.data, <<>>, r2.rest, "read space: unwrap", NoResponse)
        ELSE IF r2.data # <<SP>>
        THEN out(r1.data, r2.data, r2.rest, "assert_eq!(space, \" \")", NoResponse)
        ELSE IF n = ParseError
        THEN out(r1.data, r2.data, r2.rest, "parse status: unwrap", NoResponse)
        ELSE IF st = UnknownStatusCode
        THEN out(r1.data, r2.data, r2.rest, UnknownStatusCode, NoResponse)
        ELSE IF r3.err
        THEN out(r1.data, r2.data, r3.rest, "meta: io error", NoResponse)
        ELSE IF r3.data = <<>>
        THEN out(r1.data, r2.data, r3.rest, "meta: unwrap on None", NoResponse)
        ELSE IF ~Utf8Valid(r3.data)
        THEN out(r1.data, r2.data, r3.rest, "meta: unwrap on Err", NoResponse)
        ELSE out(r1.data, r2.data, r3.rest, NoPanic,
                 [status |-> st, meta |-> StripLine(r3.data), body |-> <<>>])

\* what a handler leaves: the Response, the transport, the message printed, the
\* panic site reached, and the reads it made on the transport
Handled(resp, left, msg, site, reads) ==
    [response |-> resp, chunks |-> left, printed |-> msg, panic |-> site,
     reads |-> reads]

Says(to, text, arg) == [to |-> to, text |-> text, arg |-> arg]

\* println! / eprintln! panic when the write to their stream fails
PrintFailed(to) ==
    IF to = "stdout" THEN "failed printing to stdout"
    ELSE "failed printing to stderr"

\* an arm of handle_response_header that only prints; prints tells whether
\* the write to stderr succeeds
Eprint(resp, cs, prints, text, arg) ==
    IF prints
    THEN Handled(resp, cs, Says("stderr", text, arg), NoPanic, <<>>)
    ELSE Handled(resp, cs, NoMessage, PrintFailed("stderr"), <<>>)

\* read_response_body and the println! after it
read_response_body(resp, cs, end, prints) ==
    LET r == ReadToEnd(cs, end)
        read == [resp EXCEPT !.body = resp.body \o r.data]
    IN  IF r.err
        THEN Handled([resp EXCEPT !.body = resp.body \o KeptText(r.data)],
                     r.rest, NoMessage, "read body: io error", <<"read_body">>)
        ELSE IF ~Utf8Valid(r.data)
        THEN Handled(resp, r.rest, NoMessage, "read body: unwrap",
                     <<"read_body">>)
        ELSE IF ~prints
        THEN Handled(read, r.rest, NoMessage, PrintFailed("stdout"),
                     <<"read_body">>)
        ELSE Handled(read, r.rest,
                     Says("stdout", "Server returned:", read.body),
                     NoPanic, <<"read_body">>)

\* handle_success
handle_success(resp, cs, end, prints) ==
    IF ~StartsWith(resp.meta, TextPrefix)
    THEN Handled(resp, cs, NoMessage,
                 "I only know how to handle text MIME types", <<>>)
    ELSE read_response_body(resp, cs, end, prints)

\* a handler that drains the transport whatever the status is
handle_response_header_draining(resp, cs, end, prints) ==
    IF resp.status = "Success" THEN handle_success(resp, cs, end, prints)
    ELSE Handled(resp, <<>>,
                 Says("stderr", "I don't know how to handle", <<resp.status>>),
                 NoPanic, <<"read_body">>)

\* handle_response_header
handle_response_header(resp, cs, end, prints) ==
    CASE resp.status = "Success" -> handle_success(resp, cs, end, prints)
      [] resp.status = "NotFound" ->
            Eprint(resp, cs, prints, "Page not found!", <<>>)
      [] resp.status = "BadRequest" ->
            Eprint(resp, cs, prints,
                   "Oops! Looks like we made a bad request", <<>>)
      [] resp.status \in {"RedirectPermanent", "RedirectTemporary"} ->
            Eprint(resp, cs, prints, "TODO: Got a redirect to", resp.meta)
      [] resp.status = "TemporaryFailure" ->
            Eprint(resp, cs, prints, "We failed - but only for now.", resp.meta)
      [] resp.status = "PermanentFailure" ->
            Eprint(resp, cs, prints, "We failed - big time.", resp.meta)
      [] OTHER ->
            Eprint(resp, cs, prints, "I don't know how to handle",
                   <<resp.status>>)

-----------------------------------------------------------------------------
(* The inputs of one run: the command line, standard input, and what the    *)
(* server sends, how its delivery is cut into chunks and how it ends.       *)

RECURSIVE SeqsUpTo(_, _)
\* the sequences over alphabet of length at most n
SeqsUpTo(alphabet, n) ==
    IF n = 0 THEN {<<>>}
    ELSE LET shorter == SeqsUpTo(alphabet, n - 1)
         IN  shorter \cup {Append(t, c) : t \in shorter, c \in alphabet}

RECURSIVE CutSets(_, _)
\* the sets of at most k cut positions among 1..n
CutSets(n, k) ==
    IF k = 0 THEN {{}}
    ELSE LET fewer == CutSets(n, k - 1)
         IN  fewer \cup {c \cup {p} : c \in fewer, p \in 1..n}

RECURSIVE SplitFrom(_, _, _, _)
\* s from position start on, cut after each position of cuts
SplitFrom(s, cuts, start, i) ==
    IF start > Len(s) THEN <<>>
    ELSE IF i = Len(s) \/ i \in cuts
    THEN <<SubSeq(s, start, i)>> \o SplitFrom(s, cuts, i + 1, i + 1)
    ELSE SplitFrom(s, cuts, start, i + 1)

\* every delivery of the bytes s in chunks, cut in at most MaxCuts places
Chunkings(s) ==
    IF s = <<>> THEN {<<>>}
    ELSE {SplitFrom(s, c, 1, 1) : c \in CutSets(Len(s) - 1, MaxCuts)}

Prefixes(s) == {Take(s, n) : n \in 0..Len(s)}

HostAlphabet == {"h", CR, LF}

StdinAlphabet == {"/", CR, LF, BadByte}

Domains ==
    {p \o t : p \in {<<>>, Scheme, Take(Scheme, 8)},
              t \in SeqsUpTo(HostAlphabet, MaxHostLen)}

Stdins == SeqsUpTo(StdinAlphabet, MaxStdinLen)

StatusAlphabet == Digits \cup {"+", "-", "a", SP, BadByte, "0xC3", "0xA9"}

\* every two-byte status field, each separator, a short meta line, with and
\* without bytes after it
StatusSweep ==
    {<<a, b, sep, "m", LF>> \o body :
        a \in StatusAlphabet, b \in StatusAlphabet,
        sep \in {SP, "x", BadByte}, body \in {<<>>, <<"b">>}}

Metas ==
    {<<"t", "e", "x", "t", "/", "g">>, <<"t", "e", "x", "t">>,
     <<"a", "p", "p">>, <<"t", BadByte>>, <<"0xC3", "0xA9">>,
     <<"0xE2", "0x82", "0xAC">>, <<>>}

Bodies == {<<>>, <<"h", "i">>, <<BadByte>>}

\* well-formed responses of a few statuses, and every stream that closes
\* part-way through one of them
FramingSweep ==
    UNION {Prefixes(code \o <<SP>> \o meta \o term \o body) :
              code \in {<<"2", "0">>, <<"5", "1">>},
              meta \in Metas, term \in {<<CR, LF>>, <<LF>>}, body \in Bodies}

Streams == StatusSweep \cup FramingSweep

PlainDomain == <<"h">>

PlainStdin == <<"/", LF>>

PlainStream == <<"2", "0", SP>> \o TextPrefix \o <<"g", CR, LF, "h", "i">>

Init ==
    /\ \/ /\ domain = PlainDomain
          /\ stdin = PlainStdin
          /\ stdin_end = "eof"
          /\ \E s \in Streams : served \in Chunkings(s)
          /\ closing \in StreamEnds
       \/ /\ domain \in Domains
          /\ stdin \in Stdins
          /\ stdin_end \in StreamEnds
          /\ served = <<PlainStream>>
          /\ closing = "eof"
    /\ resource = <<>>
    /\ uri = <<>>
    /\ chunks = <<>>
    /\ wire = <<>>
    /\ status_buf = <<>>
    /\ space = <<>>
    /\ response = NoResponse
    /\ printed = NoMessage
    /\ panic = NoPanic
    /\ ops = <<>>
    /\ pc = "main"

-----------------------------------------------------------------------------
(* The steps of main.                                                      *)

\* main.rs:169-174: the prompt is printed, or println! panics; the resource
\* is the first line of standard input; main returns Err when that line
\* cannot be read, or cannot be read as text
ReadResource ==
    /\ pc = "main"
    /\ \/ /\ resource' = ResourceFrom(stdin, stdin_end).line
          /\ pc' = IF ResourceFrom(stdin, stdin_end).err THEN "returned_err"
                   ELSE "build_uri"
          /\ UNCHANGED panic
       \/ /\ panic' = PrintFailed("stdout")
          /\ pc' = "panicked"
          /\ UNCHANGED resource
    /\ UNCHANGED <<domain, stdin, stdin_end, uri, served, closing, chunks, wire,
                   status_buf, space, response, printed, ops>>

\* fetch_resource, main.rs:158-159: the request line is built, then logged,
\* or eprintln! panics
BuildUri ==
    /\ pc = "build_uri"
    /\ uri' = build_uri(domain, resource)
    /\ \/ /\ pc' = "create_stream"
          /\ UNCHANGED panic
       \/ /\ panic' = PrintFailed("stderr")
          /\ pc' = "panicked"
    /\ UNCHANGED <<domain, stdin, stdin_end, resource, served, closing, chunks, wire,
                   status_buf, space, response, printed, ops>>

\* a create_stream whose failure to connect does not end the run
CreateStreamCarryingOn ==
    /\ pc = "create_stream"
    /\ ops' = Append(ops, "connect")
    /\ \/ UNCHANGED panic
       \/ panic' = "create_stream: unwrap"
    /\ pc' = "send_request"
    /\ UNCHANGED <<domain, stdin, stdin_end, resource, uri, served, closing, chunks, wire,
                   status_buf, space, response, printed>>

\* create_stream: the connection is made, or an unwrap panics; which of the
\* two is the resolver's, the network's and the server's matter
CreateStream ==
    /\ pc = "create_stream"
    /\ ops' = Append(ops, "connect")
    /\ \/ /\ pc' = "send_request"
          /\ UNCHANGED panic
       \/ /\ pc' = "panicked"
          /\ panic' = "create_stream: unwrap"
    /\ UNCHANGED <<domain, stdin, stdin_end, resource, uri, served, closing, chunks, wire,
                   status_buf, space, response, printed>>

\* send_request: write_all writes the whole request line and the server
\* answers, or one of its write calls fails when only the first written
\* bytes of the line, fewer than all, have gone out
SendRequest ==
    /\ pc = "send_request"
    /\ ops' = Append(ops, "write")
    /\ \/ /\ wire' = uri
          /\ chunks' = served
          /\ pc' = "read_response_header"
          /\ UNCHANGED panic
       \/ /\ \E written \in 0..(Len(uri) - 1) : wire' = Take(uri, written)
          /\ pc' = "panicked"
          /\ panic' = "write failed"
          /\ UNCHANGED chunks
    /\ UNCHANGED <<domain, stdin, stdin_end, resource, uri, served, closing, status_buf,
                   space, response, printed>>

\* main.rs:178
ReadResponseHeader ==
    /\ pc = "read_response_header"
    /\ LET r == read_response_header(chunks, closing)
       IN  /\ status_buf' = r.status_buf
           /\ space' = r.space
           /\ chunks' = r.chunks
           /\ response' = r.response
           /\ panic' = r.panic
           /\ pc' = IF r.panic = NoPanic THEN "handle_response_header"
                    ELSE "panicked"
    /\ ops' = Append(ops, "read_header")
    /\ UNCHANGED <<domain, stdin, stdin_end, resource, uri, served, closing, wire,
                   printed>>

\* main.rs:180; the write of the handler's one message succeeds or fails
HandleResponseHeader ==
    /\ pc = "handle_response_header"
    /\ \E prints \in BOOLEAN :
          LET r == handle_response_header(response, chunks, closing, prints)
          IN  /\ response' = r.response
              /\ chunks' = r.chunks
              /\ printed' = r.printed
              /\ panic' = r.panic
              /\ ops' = ops \o r.reads
              /\ pc' = IF r.panic = NoPanic THEN "done" ELSE "panicked"
    /\ UNCHANGED <<domain, stdin, stdin_end, resource, uri, served, closing, wire,
                   status_buf, space>>

Next ==
    \/ ReadResource
    \/ BuildUri
    \/ CreateStream
    \/ SendRequest
    \/ ReadResponseHeader
    \/ HandleResponseHeader

Spec == Init /\ [][Next]_vars

-----------------------------------------------------------------------------
(* What the properties below speak of.                                     *)

\* the bytes the server sends, whatever their chunking
ServedBytes == Flatten(served)

\* the position of the newline that ends the header line, 0 when the stream
\* closes before it
HeaderEnd ==
    IF Len(ServedBytes) < 3 THEN 0
    ELSE LET nl == IndexOf(Drop(ServedBytes, 3), LF)
         IN  IF nl = 0 THEN 0 ELSE nl + 3

\* all bytes that follow the header line
BodyBytes == IF HeaderEnd = 0 THEN <<>> ELSE Drop(ServedBytes, HeaderEnd)

\* fetch_resource has built the request line
UriBuilt == uri # <<>>

\* send_request has returned
WriteDone ==
    "write" \in {ops[i] : i \in 1..Len(ops)} /\ panic # "write failed"

\* read_response_header has run
HeaderReadDone == "read_header" \in {ops[i] : i \in 1..Len(ops)}

\* read_response_header has returned a Response
HeaderReturned == response.status # NoValue

BodyReadDone == "read_body" \in {ops[i] : i \in 1..Len(ops)}

\* the 18 integers that name a status
DefinedCodes == {10, 11, 20, 30, 31, 40, 41, 42, 43, 44, 50, 51, 52, 53, 59,
                 60, 61, 62}

Fallback == "I don't know how to handle"

\* the panics that end a run because the stream closed inside the header
\* the stream ended cleanly, as a closed connection does
StreamClosed == closing = "eof"

TruncationPanic ==
    \/ panic = "assert_eq!(space, \" \")" /\ space = <<>>
    \/ panic = "meta: unwrap on None"

\* the status field the server sent, when it sent both bytes of it
StatusField == Take(ServedBytes, 2)

HasCrOrLf(s) == Contains(s, CR) \/ Contains(s, LF)

IsPrefix(s, t) == Len(s) <= Len(t) /\ s = SubSeq(t, 1, Len(s))

-----------------------------------------------------------------------------
(* C1.  read_response_header consumes exactly the header line: when it     *)
(* returns, the next byte a read on the transport yields is the first byte *)
(* after the header's newline, and the body of a Success response with a   *)
(* text/ meta is all the bytes that follow the header line.  The code does *)
(* not keep this: the BufReader dropped in read_response_header takes with *)
(* it every byte that arrived in the same chunk as the newline.            *)
C1_HeaderReadConsumesExactlyHeaderLine ==
    /\ pc = "handle_response_header" /\ HeaderEnd > 0
           => Flatten(chunks) = BodyBytes
    /\ pc = "done" /\ response.status = "Success" /\ HeaderEnd > 0
           => response.body = BodyBytes

(* C2.  A stream that closes before the header is complete makes           *)
(* read_response_header fail, with the failure of a truncated header when  *)
(* the bytes that did arrive are in order, and never return a header.  The *)
(* code returns a header for a non-empty meta line that no newline ends.   *)
C2_TruncatedHeaderFails ==
    HeaderReadDone /\ HeaderEnd = 0
        => /\ ~HeaderReturned
           /\ pc = "panicked"
           /\ ( /\ StreamClosed
                /\ Utf8Valid(ServedBytes)
                /\ Len(ServedBytes) >= 2 => ParseU8(StatusField) \in DefinedCodes
                /\ Len(ServedBytes) >= 3 => ServedBytes[3] = SP )
              => TruncationPanic

(* C3.  Decoding a status number: each of the 18 defined integers gives    *)
(* the variant whose discriminant is that integer, so distinct integers    *)
(* give distinct variants; every other integer of 0..99 ends in the        *)
(* unknown-status panic and gives no status.                               *)
C3_DecodeIsBijectionOnDefinedCodes ==
    HeaderReadDone /\ Utf8Valid(status_buf) /\ space = <<SP>>
                   /\ ParseU8(status_buf) \in 0..99
        => LET n == ParseU8(status_buf)
           IN  IF n \in DefinedCodes
               THEN /\ panic # UnknownStatusCode
                    /\ HeaderReturned
                          => /\ response.status \in StatusCodes
                             /\ Discriminant(response.status) = n
               ELSE /\ panic = UnknownStatusCode
                    /\ ~HeaderReturned

C3_Witness ==
    /\ HeaderReturned
    /\ status_buf = <<"5", "9">>
    /\ response.status = "BadRequest"

(* C4.  For each decoded status other than Success the handler selects the *)
(* handling of the status' band and the message carries the header's meta; *)
(* the fallback is reached for no defined status.  The code names only six *)
(* of the seventeen: the others reach the fallback, and NotFound and       *)
(* BadRequest print a message without the meta.                            *)
C4_EveryBandHandledWithMeta ==
    pc = "done" /\ HeaderEnd > 0 /\ response.status \in StatusCodes \ {"Success"}
        => /\ printed.text # Fallback
           /\ printed.arg = response.meta
           /\ Discriminant(response.status) \div 10 = 3
                 => printed.text = "TODO: Got a redirect to"

(* C5.  A Success header whose meta does not begin with "text/" ends the   *)
(* dispatch normally, with no panic, and no body byte is read.  The code   *)
(* panics on its assert!.                                                  *)
C5_UnsupportedMediaTypeIsAnOutcome ==
    ( /\ HeaderReturned
      /\ HeaderEnd > 0
      /\ response.status = "Success"
      /\ ~StartsWith(response.meta, TextPrefix)
      /\ pc # "handle_response_header" )
        => /\ pc = "done"
           /\ panic = NoPanic
           /\ ~BodyReadDone

(* C6.  For a header whose status is not Success, handle_response_header   *)
(* reads nothing from the transport: what followed the header stays        *)
(* unread.  A body read happens only for Success with a text/ meta.        *)
C6_NoReadUnlessSuccess ==
    /\ [](BodyReadDone => /\ response.status = "Success"
                          /\ StartsWith(response.meta, TextPrefix))
    /\ [][pc = "handle_response_header" /\ response.status # "Success"
             => chunks' = chunks /\ ops' = ops]_vars

C6_Witness ==
    /\ pc = "done"
    /\ response.status = "NotFound"
    /\ chunks # <<>>
    /\ ~BodyReadDone

(* C7.  build_uri gives host + resource + CR LF when the host begins with  *)
(* "gemini://", and "gemini://" + host + resource + CR LF otherwise: the   *)
(* request line always begins with the scheme, and nothing is put in front *)
(* of a host that carries it.                                              *)
C7_BuildUriAddsSchemeOnce ==
    UriBuilt
        => LET tail == domain \o resource \o <<CR, LF>>
           IN  /\ StartsWith(uri, Scheme)
               /\ StartsWith(domain, Scheme) => uri = tail
               /\ ~StartsWith(domain, Scheme)
                     => /\ Len(uri) = Len(Scheme) + Len(tail)
                        /\ Drop(uri, Len(Scheme)) = tail

C7_Witness ==
    /\ pc = "create_stream"
    /\ domain = Scheme \o <<"h">>
    /\ resource = <<"/">>
    /\ uri = Scheme \o <<"h", "/", CR, LF>>

(* C8.  Every request line built ends with CR LF and holds no CR or LF     *)
(* before that, what is written is that line and, when the write succeeds, *)
(* all of it; a host or resource holding CR or LF makes building fail and  *)
(* nothing is written.  The code checks neither host nor resource.         *)
C8_NoLineBreakInsideRequest ==
    /\ UriBuilt
          => /\ Len(uri) >= 2
             /\ Drop(uri, Len(uri) - 2) = <<CR, LF>>
             /\ ~HasCrOrLf(Take(uri, Len(uri) - 2))
    /\ IsPrefix(wire, uri)
    /\ WriteDone => wire = uri
    /\ UriBuilt /\ HasCrOrLf(domain \o resource)
          => wire = <<>> /\ ~HeaderReadDone

(* C9.  A two-byte status field with a byte that is no ASCII digit makes   *)
(* read_response_header fail at the parse of the field: it is not read as  *)
(* a number and not reported as an unknown status.  The code's parse       *)
(* accepts a "+" before a digit.                                           *)
C9_NonDigitStatusIsMalformed ==
    ( /\ HeaderReadDone
      /\ Len(ServedBytes) >= 3
      /\ Utf8Valid(Take(ServedBytes, 3))
      /\ ServedBytes[3] = SP
      /\ \E i \in 1..2 : StatusField[i] \notin Digits )
        => /\ panic = "parse status: unwrap"
           /\ ~HeaderReturned

(* C10.  The transport operations of a run are, in this order, connect,    *)
(* one write, one header read and at most one body read; the body read     *)
(* comes only after a header was returned; and once a step has failed, a   *)
(* read that ends in an I/O error included, nothing more is done on the    *)
(* transport.                                                              *)
C10_ExchangeOrder ==
    /\ [](/\ IsPrefix(ops, <<"connect", "write", "read_header", "read_body">>)
          /\ BodyReadDone => HeaderReturned
          /\ pc = "done" => Len(ops) >= 3)
    /\ [][panic # NoPanic => ops' = ops]_vars

C10_Witness ==
    /\ pc = "panicked"
    /\ panic = "read body: io error"
    /\ HeaderReturned
    /\ ops = <<"connect", "write", "read_header", "read_body">>

====
